---- MODULE Spec2Model ----
(***************************************************************************)
(* The camera-roll screen of FotoFindr (CameraRollScreen, the variant with *)
(* status polling, search filter and asset-id reconciliation): the         *)
(* indexing run loadAndIndex, the "load more" handler loadMore, the        *)
(* per-asset uploadAsset, pollUntilReady and the manual reprocess button.  *)
(*                                                                         *)
(* JavaScript runs these handlers on one thread: the code between two      *)
(* awaits is one atomic step, and every await is a point where the other   *)
(* handlers' steps may interleave.  Each action below is one such step.    *)
(* React state setters are applied in the order they are called, so a      *)
(* setter is modelled as an assignment at the step that calls it.          *)
(***************************************************************************)
EXTENDS Integers, Sequences, FiniteSets, TLC

(***************************************************************************)
(* Bounds of the model.                                                    *)
(*                                                                         *)
(* INDEX_LIMIT is 30 and maxWait is 120_000 ms in the source.  Both are    *)
(* scaled down here, keeping their roles: INDEX_LIMIT stays larger than    *)
(* one batch and smaller than the largest library, maxWait stays a         *)
(* multiple of the poll interval.  They are treated as bounds.             *)
(***************************************************************************)
MaxAssets == 5
INDEX_LIMIT == 4
maxWait == 6000
MaxLoadMore == 2
MaxPhotoId == 1
MaxSearch == 2
MaxHits == 2
MaxShown == 2

(* Program constants. *)
BatchSize == 3
FirstPage == 100
interval == 3000

(* photoId?: string -- the value of a photoId that is absent (undefined). *)
Absent == 0

PhotoIds == 1..MaxPhotoId

Min(a, b) == IF a < b THEN a ELSE b

(* Array.prototype.slice(from, to) for 0 <= from. *)
Slice(s, from, to) == SubSeq(s, Min(from, Len(s)) + 1, Min(to, Len(s)))

(* A device asset: its id and its (ph://) uri. *)
Asset(k) == [id |-> k, uri |-> <<"ph", k>>]

VARIABLES
    library,          \* the device's photos, newest first
    photos,           \* useState<LocalPhoto[]>
    loading,          \* useState(true)
    permissionDenied, \* useState(false)
    indexDone,        \* useState(0)
    indexTotal,       \* useState(0)
    stage,            \* useState("idle")
    run,              \* loadAndIndex: its position and locals
    lm,               \* the loadMore invocations: position and locals of each
    up,               \* the uploadAsset calls of the batch each caller awaits
    issued,           \* the requests sent so far: who sent which kind
    filter,           \* useState<string[]>([])
    searches,         \* the handleSearch calls: position and text of each
    backend,          \* the search backend: its answer to each query
    lastSearch,       \* the most recent submission: its call and its text
    gw                \* the gateway Worker: its request and its response

vars == <<library, photos, loading, permissionDenied, indexDone, indexTotal,
          stage, run, lm, up, issued, filter, searches, backend, lastSearch,
          gw>>

(* The state of the search bar and of the gateway, which no step of the    *)
(* indexing pipeline reads or writes.                                      *)
searchVars == <<filter, searches, backend, lastSearch>>

(* Callers of uploadAsset: 0 is loadAndIndex, k >= 1 the k-th loadMore. *)
Callers == 0..MaxLoadMore
LoadMores == 1..MaxLoadMore

CallerName(o) == IF o = 0 THEN "loadAndIndex" ELSE "loadMore"

Request(by, kind) == [by |-> by, kind |-> kind]

(* MediaLibrary.getAssetsAsync({first, sortBy: creationTime}) *)
GetAssets(first) == Slice(library, 0, first)

(* assets.map((a) => ({ assetId: a.id, uri: a.uri })) *)
FreshPhotos(assets) ==
    [k \in 1..Len(assets) |->
        [assetId |-> assets[k].id, uri |-> assets[k].uri, photoId |-> Absent]]

(* The multipart form of an upload request; NoForm before it is built. *)
NoForm == [device_uri |-> <<>>, file |-> <<>>]

(* batch.map(uploadAsset): every call of the batch is started and is in    *)
(* flight until it settles.  info and form are the outcome of the call's   *)
(* asset-info race and the form it sends, where a specification follows    *)
(* uploadAsset await by await.                                             *)
StartBatch(batch) ==
    [k \in 1..Len(batch) |->
        [asset |-> batch[k], st |-> "inFlight", info |-> "pending",
         form |-> NoForm]]

(* A plausible slip: only the first call of the batch is awaited. *)
FirstSettled(calls) ==
    IF Len(calls) = 0 THEN TRUE ELSE calls[1].st = "settled"

(* A plausible slip: Promise.race in place of Promise.all. *)
SomeSettled(calls) == \E k \in 1..Len(calls) : calls[k].st = "settled"

(* await Promise.all(batch.map(uploadAsset)) resolves. *)
AllSettled(calls) == \A k \in 1..Len(calls) : calls[k].st = "settled"

(***************************************************************************)
(* The data of handleSearch and of the gateway Worker.                     *)
(***************************************************************************)

(* The handleSearch calls that may be awaiting their response at once. *)
SearchCalls == 1..MaxSearch

(* A call is "idle" (never made), awaits its "fetch", or has "returned";   *)
(* did is what the call has done to the filter.                            *)
NoSearches ==
    [c \in SearchCalls |-> [pc |-> "idle", text |-> <<>>, did |-> "nothing"]]

(* The texts a user submits, as sequences of characters: the empty text,   *)
(* whitespace-only texts and two texts that hold a word.                   *)
SearchTexts ==
    {<<>>, <<" ">>, <<" ", "\t">>, <<"d">>, <<"c", " ">>}

IsSpace(ch) == ch \in {" ", "\t"}

RECURSIVE TrimStart(_)
TrimStart(text) ==
    IF text = <<>> THEN text
    ELSE IF IsSpace(Head(text)) THEN TrimStart(Tail(text)) ELSE text

RECURSIVE TrimEnd(_)
TrimEnd(text) ==
    IF text = <<>> THEN text
    ELSE IF IsSpace(text[Len(text)])
         THEN TrimEnd(SubSeq(text, 1, Len(text) - 1))
         ELSE text

(* String.prototype.trim() *)
Trim(text) == TrimEnd(TrimStart(text))

(* A plausible slip: only the empty text counts as no query. *)
IsEmptyText(text) == text = <<>>

(* text.trim() === "" *)
IsBlank(text) == Trim(text) = <<>>

(* The queries that reach the backend: the request carries the text as it  *)
(* was submitted.                                                          *)
Queries == {text \in SearchTexts : Trim(text) # <<>>}

(* The identifiers a search response may carry: those of uploaded photos   *)
(* and one that no local photo has.                                        *)
SearchIds == 1..(MaxPhotoId + 1)

(* One element of data.photos: metadata may be missing, and metadata.id    *)
(* may be missing or empty (Absent).                                       *)
SearchHits ==
    {[hasMetadata |-> FALSE, id |-> Absent]}
        \cup {[hasMetadata |-> TRUE, id |-> x] : x \in {Absent} \cup SearchIds}

HitLists == UNION {[1..n -> SearchHits] : n \in 0..MaxHits}

(* The JSON bodies of the search endpoint: { ok, photos }, where an error  *)
(* body has ok false and may lack photos.                                  *)
SearchBodies ==
    {[ok |-> TRUE, hasPhotos |-> TRUE, photos |-> h] : h \in HitLists}
        \cup {[ok |-> b, hasPhotos |-> FALSE, photos |-> <<>>] : b \in BOOLEAN}

(* Nothing has been submitted yet. *)
NoSubmission == [call |-> 0, text |-> <<>>]

NoBackend == [q \in Queries |-> [ok |-> FALSE, hasPhotos |-> FALSE, photos |-> <<>>]]

(* Headers of a response: a set of <<name, value>> pairs, the names in the *)
(* lower case a Headers object keeps them in.                              *)
CORS_HEADERS ==
    <<  <<"access-control-allow-origin", "*">>,
        <<"access-control-allow-methods", "GET, POST, PATCH, DELETE, OPTIONS">>,
        <<"access-control-allow-headers", "Content-Type, Authorization">>  >>

HeaderSet(entries) == {entries[k] : k \in 1..Len(entries)}

HeaderValues(headers, name) == {h[2] : h \in {x \in headers : x[1] = name}}

(* A plausible slip: Headers.append, which keeps the values already there. *)
AppendHeader(headers, name, value) == headers \cup {<<name, value>>}

(* Headers.set(name, value): the value replaces every value of that name. *)
SetHeader(headers, name, value) ==
    {h \in headers : h[1] # name} \cup {<<name, value>>}

(* Object.entries(CORS_HEADERS).forEach(([k, v]) => newHeaders.set(k, v)) *)
RECURSIVE SetEach(_, _)
SetEach(headers, entries) ==
    IF entries = <<>> THEN headers
    ELSE SetEach(SetHeader(headers, Head(entries)[1], Head(entries)[2]),
                 Tail(entries))

(* The requests the Worker receives: a method, the pathname as a sequence  *)
(* of pieces, and whether the request carries a body.                      *)
GatewayMethods == {"OPTIONS", "GET", "HEAD", "POST", "PATCH", "DELETE"}

GatewayPaths ==
    {<<"/">>, <<"/", "api">>, <<"/", "api", "/", "search">>,
     <<"/", "upload">>, <<"/", "api", "ary">>}

GatewayRequests ==
    [method : GatewayMethods, pathname : GatewayPaths, hasBody : BOOLEAN]

(* url.pathname.replace(/^\/api/, "") *)
StripApi(pathname) ==
    IF Len(pathname) >= 2 /\ pathname[1] = "/" /\ pathname[2] = "api"
    THEN SubSeq(pathname, 3, Len(pathname))
    ELSE pathname

(* new Request(backendUrl, { method, headers, body }): the body is left    *)
(* out for GET and HEAD.                                                   *)
Proxied(request) ==
    [method |-> request.method,
     pathname |-> StripApi(request.pathname),
     hasBody |-> IF request.method \in {"GET", "HEAD"} THEN FALSE
                 ELSE request.hasBody]

(* What the backend may answer: the headers it sets may include its own    *)
(* CORS headers.                                                           *)
BackendHeaders ==
    SUBSET {<<"access-control-allow-origin", "https://app.example">>,
            <<"access-control-allow-methods", "GET">>,
            <<"access-control-allow-headers", "X-Token">>,
            <<"content-type", "application/json">>}

(* await fetch(proxiedRequest): it rejects, or it resolves with the        *)
(* backend's response.                                                     *)
ForwardOutcomes ==
    {[kind |-> "rejected", status |-> 0, headers |-> {}]}
        \cup [kind : {"response"}, status : {200, 404, 500},
              headers : BackendHeaders]

NoResponse == [status |-> 0, headers |-> {}, body |-> "none", json |-> {}]

NoRequest == [method |-> "", pathname |-> <<>>, hasBody |-> FALSE]

NoForward == [kind |-> "none", status |-> 0, headers |-> {}]

(* The Worker's invocation: the request, the request it forwards, how the  *)
(* forwarding settled and the response it returns.                         *)
GatewayIdle ==
    [pc |-> "idle", request |-> NoRequest, proxied |-> NoRequest,
     upstream |-> NoForward, response |-> NoResponse]

Init ==
    /\ \E n \in 0..MaxAssets : library = [k \in 1..n |-> Asset(k)]
    /\ photos = <<>>
    /\ loading = TRUE
    /\ permissionDenied = FALSE
    /\ indexDone = 0
    /\ indexTotal = 0
    /\ stage = "idle"
    /\ run = [pc |-> "permission", status |-> "none", assets |-> <<>>,
              toIndex |-> <<>>, i |-> 0, waited |-> 0, exit |-> "none"]
    /\ lm = [k \in LoadMores |->
                [pc |-> "idle", prev |-> 0, toIndex |-> <<>>, i |-> 0]]
    /\ up = [o \in Callers |-> <<>>]
    /\ issued = {}
    /\ filter = <<>>
    /\ searches = NoSearches
    /\ lastSearch = NoSubmission
    /\ backend = NoBackend
    /\ gw = GatewayIdle

(***************************************************************************)
(* loadAndIndex                                                            *)
(***************************************************************************)

(* MediaLibrary.PermissionStatus *)
PermissionStatuses == {"granted", "denied", "undetermined"}

(* A plausible slip: only an explicit denial stops the run. *)
PermissionNotDenied(status) == status # "denied"

(* status !== "granted" is the only hard stop. *)
PermissionGranted(status) == status = "granted"

(* const toIndex = assets.slice(0, INDEX_LIMIT) *)
ToIndex(assets) == Slice(assets, 0, INDEX_LIMIT)

(* A plausible slip: done advances by the batch size, not the batch's length. *)
DoneByBatchSize(prev, batchLen, total) == prev + BatchSize

(* setIndexDone((prev) => Math.min(prev + batch.length, toIndex.length)) *)
DoneAfterBatch(prev, batchLen, total) == Min(prev + batchLen, total)

(* A plausible slip: with nothing left to upload the run goes straight to  *)
(* "ready", without the reprocess request and the poll.                    *)
RunLoopHeadSkipsProcessing(toIndex, i) ==
    IF i < Len(toIndex)
    THEN /\ up' = [up EXCEPT ![0] = StartBatch(Slice(toIndex, i, i + BatchSize))]
         /\ run' = [run EXCEPT !.pc = "batch", !.i = i]
         /\ stage' = stage
         /\ issued' = issued
    ELSE /\ up' = [up EXCEPT ![0] = <<>>]
         /\ run' = [run EXCEPT !.pc = "done", !.i = i]
         /\ stage' = "ready"
         /\ issued' = issued

(* The head of the for loop of loadAndIndex, reached from the code before  *)
(* the loop and from the end of its body.  Either the next batch is        *)
(* started and awaited, or the loop is left, stage becomes "processing"    *)
(* and the reprocess request is sent.                                      *)
RunLoopHead(toIndex, i) ==
    IF i < Len(toIndex)
    THEN /\ up' = [up EXCEPT ![0] = StartBatch(Slice(toIndex, i, i + BatchSize))]
         /\ run' = [run EXCEPT !.pc = "batch", !.i = i]
         /\ stage' = stage
         /\ issued' = issued
    ELSE /\ up' = [up EXCEPT ![0] = <<>>]
         /\ run' = [run EXCEPT !.pc = "reprocess", !.i = i]
         /\ stage' = "processing"
         /\ issued' = issued \cup {Request("loadAndIndex", "reprocess")}

(* await MediaLibrary.requestPermissionsAsync() has answered. *)
PermissionAnswered(status) ==
    /\ run.pc = "permission"
    /\ IF PermissionGranted(status)
       THEN /\ run' = [run EXCEPT !.pc = "getAssets", !.status = status]
            /\ UNCHANGED <<permissionDenied, loading>>
       ELSE /\ permissionDenied' = TRUE
            /\ loading' = FALSE
            /\ run' = [run EXCEPT !.pc = "returned", !.status = status]
    /\ UNCHANGED <<library, photos, indexDone, indexTotal, stage, lm, up, issued>>
    /\ UNCHANGED <<searchVars, gw>>

(* await getAssetsAsync has answered: the photos are shown, stage becomes  *)
(* "clearing" and the clear request is sent.                               *)
RunAssetsLoaded ==
    /\ run.pc = "getAssets"
    /\ photos' = FreshPhotos(GetAssets(FirstPage))
    /\ loading' = FALSE
    /\ stage' = "clearing"
    /\ issued' = issued \cup {Request("loadAndIndex", "clear")}
    /\ run' = [run EXCEPT !.pc = "clear", !.assets = GetAssets(FirstPage)]
    /\ UNCHANGED <<library, permissionDenied, indexDone, indexTotal, lm, up>>
    /\ UNCHANGED <<searchVars, gw>>

(* A plausible slip: no try around the clear request, so a network        *)
(* failure rejects loadAndIndex and the run ends there.                    *)
RunClearSettledUncaught(outcome) ==
    /\ run.pc = "clear"
    /\ IF outcome = "networkFailure"
       THEN /\ run' = [run EXCEPT !.pc = "rejected"]
            /\ UNCHANGED <<stage, indexTotal>>
       ELSE /\ stage' = "uploading"
            /\ indexTotal' = Len(Slice(run.assets, 0, INDEX_LIMIT))
            /\ run' = [run EXCEPT !.pc = "loop",
                                  !.toIndex = Slice(run.assets, 0, INDEX_LIMIT),
                                  !.i = 0]
    /\ UNCHANGED <<library, photos, loading, permissionDenied, indexDone, lm,
                   up, issued>>
    /\ UNCHANGED <<searchVars, gw>>

(* The clear request has settled, whatever its outcome (the catch is       *)
(* empty): stage becomes "uploading", toIndex is selected and indexTotal   *)
(* is set.  The loop follows in the same synchronous block; it is the next *)
(* step (RunLoopEntered), so that every value stage is set to is a state:  *)
(* for an empty selection setStage("uploading") and setStage("processing") *)
(* are called one after the other with no await between them.              *)
RunClearSettled(outcome) ==
    /\ run.pc = "clear"
    /\ stage' = "uploading"
    /\ indexTotal' = Len(ToIndex(run.assets))
    /\ run' = [run EXCEPT !.pc = "loop", !.toIndex = ToIndex(run.assets), !.i = 0]
    /\ UNCHANGED <<library, photos, loading, permissionDenied, indexDone, lm,
                   up, issued>>
    /\ UNCHANGED <<searchVars, gw>>

(* for (let i = 0; ...): the loop is entered. *)
RunLoopEntered ==
    /\ run.pc = "loop"
    /\ RunLoopHead(run.toIndex, run.i)
    /\ UNCHANGED <<library, photos, loading, permissionDenied, indexDone,
                   indexTotal, lm>>
    /\ UNCHANGED <<searchVars, gw>>

(* await Promise.all(batch.map(uploadAsset)) has resolved: every call of   *)
(* the batch has settled.                                                  *)
RunBatchSettled ==
    /\ run.pc = "batch"
    /\ AllSettled(up[0])
    /\ indexDone' = DoneAfterBatch(indexDone, Len(up[0]), Len(run.toIndex))
    /\ RunLoopHead(run.toIndex, run.i + BatchSize)
    /\ UNCHANGED <<library, photos, loading, permissionDenied, indexTotal, lm>>
    /\ UNCHANGED <<searchVars, gw>>

(***************************************************************************)
(* pollUntilReady.  Date.now() is run.waited, the milliseconds since the   *)
(* deadline was computed; a timer fires after its delay.                   *)
(***************************************************************************)

(* A status poll: the request failed (or its body did not parse), or it    *)
(* answered {processed, total}.                                            *)
StatusCounts == {0, 1, MaxAssets}

StatusOutcomes ==
    {[ok |-> FALSE, processed |-> 0, total |-> 0]}
        \cup {[ok |-> TRUE, processed |-> p, total |-> t] :
                 p \in StatusCounts, t \in StatusCounts}

(* if (total > 0 && processed >= total) return; *)
StatusComplete(r) == r.ok /\ r.total > 0 /\ r.processed >= r.total

(* while (Date.now() < deadline), with deadline = start + maxWait *)
BeforeDeadline(waited) == waited < maxWait

(* A plausible slip: the deadline is computed anew in every iteration, so  *)
(* it never passes.                                                        *)
PollLoopHeadNewDeadline(waited) ==
    /\ run' = [run EXCEPT !.pc = "pollSleep", !.waited = 0]
    /\ stage' = stage

(* The head of the while loop of pollUntilReady: sleep again, or give up   *)
(* and return to loadAndIndex, which sets stage "ready".                   *)
PollLoopHead(waited) ==
    IF BeforeDeadline(waited)
    THEN /\ run' = [run EXCEPT !.pc = "pollSleep", !.waited = waited]
         /\ stage' = stage
    ELSE /\ run' = [run EXCEPT !.pc = "done", !.exit = "deadline"]
         /\ stage' = "ready"

(* The reprocess request has settled, whatever its outcome:                *)
(* pollUntilReady(toIndex.length) is called.                               *)
RunReprocessSettled(outcome) ==
    /\ run.pc = "reprocess"
    /\ PollLoopHead(0)
    /\ UNCHANGED <<library, photos, loading, permissionDenied, indexDone,
                   indexTotal, lm, up, issued>>
    /\ UNCHANGED <<searchVars, gw>>

(* The interval timer has fired: the status request is sent. *)
PollTimerFired ==
    /\ run.pc = "pollSleep"
    /\ run' = [run EXCEPT !.pc = "pollFetch", !.waited = run.waited + interval]
    /\ issued' = issued \cup {Request("loadAndIndex", "status")}
    /\ UNCHANGED <<library, photos, loading, permissionDenied, indexDone,
                   indexTotal, stage, lm, up>>
    /\ UNCHANGED <<searchVars, gw>>

(* The status request has settled. *)
PollStatusSettled(r) ==
    /\ run.pc = "pollFetch"
    /\ IF StatusComplete(r)
       THEN /\ run' = [run EXCEPT !.pc = "done", !.exit = "complete"]
            /\ stage' = "ready"
       ELSE PollLoopHead(run.waited)
    /\ UNCHANGED <<library, photos, loading, permissionDenied, indexDone,
                   indexTotal, lm, up, issued>>
    /\ UNCHANGED <<searchVars, gw>>

(* The outcomes of a request whose response the code does not read. *)
CallOutcomes == {"ok", "error", "networkFailure"}

(***************************************************************************)
(* loadMore.  The handler closes over the indexTotal of the render that    *)
(* created it: lm[k].prev is that value, read at the press.                *)
(***************************************************************************)

(* The Load More button exists when PhotoGrid is rendered with photos. *)
LoadMoreShown == ~loading /\ ~permissionDenied /\ Len(photos) > 0

(* const toIndex = assets.slice(indexTotal, indexTotal + INDEX_LIMIT) *)
MoreToIndex(assets, prev) == Slice(assets, prev, prev + INDEX_LIMIT)

(* const batch = toIndex.slice(i, i + 3), with i counting from prev *)
MoreBatch(toIndex, i) == Slice(toIndex, i, i + BatchSize)

(* setIndexDone((prev) => prev + batch.length) *)
DoneAfterMoreBatch(prev, batchLen) == prev + batchLen

(* The head of the for loop of loadMore: i runs from prev to               *)
(* prev + INDEX_LIMIT.                                                     *)
MoreLoopHead(k, prev, toIndex, i) ==
    IF i < prev + INDEX_LIMIT
    THEN /\ up' = [up EXCEPT ![k] = StartBatch(MoreBatch(toIndex, i))]
         /\ lm' = [lm EXCEPT ![k] = [pc |-> "batch", prev |-> prev,
                                     toIndex |-> toIndex, i |-> i]]
    ELSE /\ up' = [up EXCEPT ![k] = <<>>]
         /\ lm' = [lm EXCEPT ![k] = [pc |-> "returned", prev |-> prev,
                                     toIndex |-> toIndex, i |-> i]]

(* The button is pressed: loadMore runs to its await of getAssetsAsync.    *)
(* The invocations are numbered in the order of the presses.               *)
LoadMorePressed(k) ==
    /\ LoadMoreShown
    /\ lm[k].pc = "idle"
    /\ k > 1 => lm[k - 1].pc # "idle"
    /\ lm' = [lm EXCEPT ![k].pc = "getAssets", ![k].prev = indexTotal]
    /\ UNCHANGED <<library, photos, loading, permissionDenied, indexDone,
                   indexTotal, stage, run, up, issued>>
    /\ UNCHANGED <<searchVars, gw>>

(* await getAssetsAsync has answered: the collection is replaced, toIndex  *)
(* is selected, indexTotal is raised and the loop starts.                  *)
MoreAssetsLoaded(k) ==
    /\ lm[k].pc = "getAssets"
    /\ LET assets == GetAssets(lm[k].prev + FirstPage)
           toIndex == MoreToIndex(assets, lm[k].prev)
       IN  /\ photos' = FreshPhotos(assets)
           /\ indexTotal' = indexTotal + Len(toIndex)
           /\ MoreLoopHead(k, lm[k].prev, toIndex, lm[k].prev)
    /\ UNCHANGED <<library, loading, permissionDenied, indexDone, stage, run, issued>>
    /\ UNCHANGED <<searchVars, gw>>

(* await Promise.all(batch.map(uploadAsset)) has resolved (at once for an  *)
(* empty batch).                                                           *)
MoreBatchSettled(k) ==
    /\ lm[k].pc = "batch"
    /\ AllSettled(up[k])
    /\ indexDone' = DoneAfterMoreBatch(indexDone, Len(up[k]))
    /\ MoreLoopHead(k, lm[k].prev, lm[k].toIndex, lm[k].i + BatchSize)
    /\ UNCHANGED <<library, photos, loading, permissionDenied, indexTotal,
                   stage, run, issued>>
    /\ UNCHANGED <<searchVars, gw>>

(***************************************************************************)
(* uploadAsset                                                             *)
(***************************************************************************)

(* The upload request settles: fetch rejects (network error, or the abort  *)
(* of the 8 s timer), or it resolves with a body that does not parse, or   *)
(* with a JSON body; the JSON of a success carries photo_id, that of a     *)
(* non-success response (an error body) does not.                          *)
UploadOutcomes ==
    {[kind |-> k, photo_id |-> Absent] :
        k \in {"networkError", "abort", "unparsable", "nonSuccess"}}
        \cup {[kind |-> "success", photo_id |-> p] : p \in PhotoIds}

(* Whether res.json() resolved, so that the code reaches setPhotos: the    *)
(* code does not read res.ok.                                              *)
BodyParsed(r) == r.kind \in {"success", "nonSuccess"}

(* A plausible slip: the matched photo is rebuilt without the spread, so   *)
(* its uri is lost.                                                        *)
SetPhotoIdNoSpread(prevPhotos, assetId, photoId) ==
    [k \in 1..Len(prevPhotos) |->
        IF prevPhotos[k].assetId = assetId
        THEN [assetId |-> assetId, uri |-> <<>>, photoId |-> photoId]
        ELSE prevPhotos[k]]

(* prevPhotos.map((photo) =>                                               *)
(*     photo.assetId === asset.id ? { ...photo, photoId } : photo)         *)
SetPhotoId(prevPhotos, assetId, photoId) ==
    [k \in 1..Len(prevPhotos) |->
        IF prevPhotos[k].assetId = assetId
        THEN [prevPhotos[k] EXCEPT !.photoId = photoId]
        ELSE prevPhotos[k]]

(* A plausible slip: setPhotos(photos.map(...)) over the photos captured   *)
(* when the run listed them, in place of the functional update.            *)
PhotosAfterUploadStale(prevPhotos, asset, r) ==
    IF BodyParsed(r)
    THEN SetPhotoId([k \in 1..Len(prevPhotos) |->
                        [prevPhotos[k] EXCEPT !.photoId = Absent]],
                    asset.id, r.photo_id)
    ELSE prevPhotos

(* The photos after an upload response. *)
PhotosAfterUpload(prevPhotos, asset, r) ==
    IF BodyParsed(r) THEN SetPhotoId(prevPhotos, asset.id, r.photo_id)
    ELSE prevPhotos

(* The asset-info race: getAssetInfoAsync resolves with or without a       *)
(* localUri, or rejects, or the 3 s timer rejects first.                   *)
InfoOutcomes == {"localUri", "noLocalUri", "rejected", "timeout"}

(* The inner try/catch: a rejection of the race is caught ("use asset.uri  *)
(* as-is") and the code goes on to the upload request either way.          *)
InfoTry(info) ==
    IF info \in {"rejected", "timeout"} THEN "caught" ELSE "completed"

(* A plausible slip: the outer catch is missing for a rejected fetch, so a *)
(* network error or the abort leaves uploadAsset as a thrown error.        *)
UploadTryRethrows(r) ==
    IF r.kind \in {"networkError", "abort"} THEN "thrown"
    ELSE IF r.kind = "unparsable" THEN "caught" ELSE "completed"

(* The outer try/catch/finally: a rejected fetch and a rejected res.json() *)
(* are caught by the empty catch; nothing is rethrown.                     *)
UploadTry(r) ==
    IF r.kind \in {"networkError", "abort", "unparsable"} THEN "caught"
    ELSE "completed"

(* How the promise of one uploadAsset call ends: it is fulfilled unless    *)
(* one of its two try blocks lets an error out.                            *)
UploadEnds(info, r) ==
    IF InfoTry(info) = "thrown" \/ UploadTry(r) = "thrown" THEN "rejected"
    ELSE "settled"

(* Call j of caller o settles.  Between its two awaits (the asset-info     *)
(* race, whose every outcome leads on to the upload request, and the       *)
(* request itself) uploadAsset reads and writes no state of the screen, so *)
(* the call is one step: the request is sent and settles with r, and the   *)
(* call ends as UploadEnds says, for whichever outcome the race had.       *)
UploadSettled(o, j, r) ==
    /\ j \in 1..Len(up[o])
    /\ up[o][j].st = "inFlight"
    /\ photos' = PhotosAfterUpload(photos, up[o][j].asset, r)
    /\ \E end \in {UploadEnds(info, r) : info \in InfoOutcomes} :
           up' = [up EXCEPT ![o][j].st = end]
    /\ issued' = issued \cup {Request(CallerName(o), "upload")}
    /\ UNCHANGED <<library, loading, permissionDenied, indexDone, indexTotal,
                   stage, run, lm>>
    /\ UNCHANGED <<searchVars, gw>>

(* info.localUri: the file:// uri the asset resolves to. *)
LocalUri(asset) == <<"file", asset.id>>

(* A plausible slip: device_uri is given the resolved uri. *)
UploadFormResolved(asset, info) ==
    [device_uri |-> IF info = "localUri" THEN LocalUri(asset) ELSE asset.uri,
     file |-> IF info = "localUri" THEN LocalUri(asset) ELSE asset.uri]

(* The form: device_uri is asset.uri; the file's uri is                    *)
(* info.localUri ?? asset.uri when the race resolved, and asset.uri when   *)
(* it was caught.                                                          *)
UploadForm(asset, info) ==
    [device_uri |-> asset.uri,
     file |-> IF InfoTry(info) = "completed" /\ info = "localUri"
              THEN LocalUri(asset) ELSE asset.uri]

(* uploadAsset await by await, first await: the asset-info race of call j  *)
(* of caller o settles, the form is built and the upload request is sent.  *)
UploadInfoSettled(o, j, info) ==
    /\ j \in 1..Len(up[o])
    /\ up[o][j].st = "inFlight"
    /\ up[o][j].info = "pending"
    /\ IF InfoTry(info) = "thrown"
       THEN /\ up' = [up EXCEPT ![o][j].st = "rejected", ![o][j].info = info]
            /\ UNCHANGED issued
       ELSE /\ up' = [up EXCEPT ![o][j].info = info,
                                ![o][j].form = UploadForm(up[o][j].asset, info)]
            /\ issued' = issued \cup {Request(CallerName(o), "upload")}
    /\ UNCHANGED <<library, photos, loading, permissionDenied, indexDone,
                   indexTotal, stage, run, lm>>
    /\ UNCHANGED <<searchVars, gw>>

(* uploadAsset await by await, second await: the upload request of call j  *)
(* of caller o settles with r and the call ends.                           *)
UploadResponded(o, j, r) ==
    /\ j \in 1..Len(up[o])
    /\ up[o][j].st = "inFlight"
    /\ up[o][j].info # "pending"
    /\ photos' = PhotosAfterUpload(photos, up[o][j].asset, r)
    /\ up' = [up EXCEPT ![o][j].st = UploadEnds(up[o][j].info, r)]
    /\ UNCHANGED <<library, loading, permissionDenied, indexDone, indexTotal,
                   stage, run, lm, issued>>
    /\ UNCHANGED <<searchVars, gw>>

(***************************************************************************)
(* triggerReprocess: the button is always rendered.                        *)
(***************************************************************************)
TriggerReprocess ==
    /\ Request("triggerReprocess", "reprocess") \notin issued
    /\ issued' = issued \cup {Request("triggerReprocess", "reprocess")}
    /\ UNCHANGED <<library, photos, loading, permissionDenied, indexDone,
                   indexTotal, stage, run, lm, up>>
    /\ UNCHANGED <<searchVars, gw>>

(***************************************************************************)
(* handleSearch and the grid                                               *)
(***************************************************************************)

Range(seq) == {seq[k] : k \in 1..Len(seq)}

(* photo.metadata?.id *)
MetadataId(hit) == IF hit.hasMetadata THEN hit.id ELSE Absent

(* (id): id is string => !!id *)
Truthy(id) == id # Absent

(* A plausible slip: the identifiers are mapped but not filtered. *)
PhotoIdsUnfiltered(hits) == [k \in 1..Len(hits) |-> MetadataId(hits[k])]

(* data.photos.map((photo) => photo.metadata?.id).filter((id) => !!id) *)
PhotoIdsOf(hits) ==
    SelectSeq([k \in 1..Len(hits) |-> MetadataId(hits[k])], Truthy)

(* How the request of a search settles: fetch rejects, response.json()     *)
(* rejects, or the body parses.                                            *)
SearchSettles == {"networkError", "unparsable", "json"}

(* Whether the code reaches setFilter: the body parsed, data.ok is true    *)
(* and data.photos is there (data.photos.map throws otherwise, inside the  *)
(* try).                                                                   *)
SearchOk(kind, body) == kind = "json" /\ body.ok /\ body.hasPhotos

(* A plausible slip: a failed search clears the filter. *)
FilterClearedOnFailure(prev, kind, body) ==
    IF SearchOk(kind, body) THEN PhotoIdsOf(body.photos) ELSE <<>>

(* A plausible slip: the identifiers found are added to the filter. *)
FilterMerged(prev, kind, body) ==
    IF SearchOk(kind, body) THEN prev \o PhotoIdsOf(body.photos) ELSE prev

(* The filter after the try/catch of handleSearch: setFilter(photoIds) on  *)
(* success, and nothing at all otherwise ("filter won't update").          *)
FilterAfterSearch(prev, kind, body) ==
    IF SearchOk(kind, body) THEN PhotoIdsOf(body.photos) ELSE prev

(* onSearch(text).  handleSearch runs up to its first await: a blank text  *)
(* clears the filter and returns; any other text is sent, as submitted, to *)
(* the search endpoint.  Call c is the first one that is not awaiting.     *)
SearchSubmitted(c, text) ==
    /\ searches[c].pc # "fetch"
    /\ \A b \in SearchCalls : b < c => searches[b].pc = "fetch"
    /\ IF IsBlank(text)
       THEN /\ filter' = <<>>
            /\ searches' = [searches EXCEPT ![c] =
                    [pc |-> "returned", text |-> <<>>, did |-> "cleared"]]
            /\ UNCHANGED issued
       ELSE /\ searches' = [searches EXCEPT ![c] =
                    [pc |-> "fetch", text |-> text, did |-> "nothing"]]
            /\ issued' = issued \cup {Request("handleSearch", "search")}
            /\ UNCHANGED filter
    /\ lastSearch' = [call |-> c, text |-> text]
    /\ UNCHANGED <<library, photos, loading, permissionDenied, indexDone,
                   indexTotal, stage, run, lm, up, backend, gw>>

(* The request of call c settles and handleSearch returns. *)
SearchSettled(c, kind) ==
    /\ searches[c].pc = "fetch"
    /\ filter' = FilterAfterSearch(filter, kind, backend[searches[c].text])
    /\ searches' = [searches EXCEPT ![c] =
            [pc |-> "returned", text |-> <<>>,
             did |-> IF SearchOk(kind, backend[searches[c].text])
                     THEN "set" ELSE "nothing"]]
    /\ UNCHANGED <<library, photos, loading, permissionDenied, indexDone,
                   indexTotal, stage, run, lm, up, issued, backend, lastSearch,
                   gw>>

(* A plausible slip: the grid filters even with an empty filter, and so    *)
(* shows nothing.                                                          *)
FilteredPhotosAlways(shownPhotos, shownFilter) ==
    LET Included(photo) == photo.photoId \in Range(shownFilter)
    IN  SelectSeq(shownPhotos, Included)

(* PhotoGrid: filteredPhotos *)
FilteredPhotos(shownPhotos, shownFilter) ==
    LET Included(photo) == photo.photoId \in Range(shownFilter)
    IN  IF Len(shownFilter) > 0 THEN SelectSeq(shownPhotos, Included)
        ELSE shownPhotos

(***************************************************************************)
(* The gateway Worker                                                      *)
(***************************************************************************)

(* new Response(null, { status: 204, headers: CORS_HEADERS }) *)
PreflightResponse ==
    [status |-> 204, headers |-> HeaderSet(CORS_HEADERS), body |-> "none",
     json |-> {}]

(* The backend's response with the CORS headers set on a copy of its       *)
(* headers: same status, same body.                                        *)
ForwardedResponse(r) ==
    [status |-> r.status, headers |-> SetEach(r.headers, CORS_HEADERS),
     body |-> "backend", json |-> {}]

(* A plausible slip: the failure is answered as a plain 500. *)
GatewayErrorPlain(err) ==
    [status |-> 500,
     headers |-> HeaderSet(CORS_HEADERS),
     body |-> "text", json |-> {}]

(* The catch: 502 with a JSON body { error, detail } and the CORS headers. *)
GatewayError(err) ==
    [status |-> 502,
     headers |-> {<<"content-type", "application/json">>}
                    \cup HeaderSet(CORS_HEADERS),
     body |-> "json",
     json |-> {<<"error", "Gateway error">>, <<"detail", err>>}]

(* fetch(request, env) up to its await: OPTIONS is answered at once and    *)
(* is not forwarded; any other request is forwarded to the backend.        *)
GatewayReceives(request) ==
    /\ gw.pc \in {"idle", "returned"}
    /\ gw' = IF request.method = "OPTIONS"
             THEN [pc |-> "returned", request |-> request,
                   proxied |-> NoRequest, upstream |-> NoForward,
                   response |-> PreflightResponse]
             ELSE [pc |-> "forwarding", request |-> request,
                   proxied |-> Proxied(request), upstream |-> NoForward,
                   response |-> NoResponse]
    /\ UNCHANGED <<library, photos, loading, permissionDenied, indexDone,
                   indexTotal, stage, run, lm, up, issued, searchVars>>

(* await fetch(proxiedRequest) settles and the Worker returns. *)
GatewayForwardSettled(r) ==
    /\ gw.pc = "forwarding"
    /\ gw' = [gw EXCEPT
                !.pc = "returned",
                !.upstream = r,
                !.response = IF r.kind = "rejected"
                             THEN GatewayError("TypeError: fetch failed")
                             ELSE ForwardedResponse(r)]
    /\ UNCHANGED <<library, photos, loading, permissionDenied, indexDone,
                   indexTotal, stage, run, lm, up, issued, searchVars>>

(***************************************************************************)
(* The specification                                                       *)
(***************************************************************************)
RunStep ==
    \/ \E status \in PermissionStatuses : PermissionAnswered(status)
    \/ RunAssetsLoaded
    \/ \E outcome \in CallOutcomes : RunClearSettled(outcome)
    \/ RunLoopEntered
    \/ RunBatchSettled
    \/ \E outcome \in CallOutcomes : RunReprocessSettled(outcome)
    \/ PollTimerFired
    \/ \E r \in StatusOutcomes : PollStatusSettled(r)

UploadStep(o) ==
    \E j \in 1..BatchSize, r \in UploadOutcomes : UploadSettled(o, j, r)

MoreStep ==
    \/ \E k \in LoadMores : LoadMorePressed(k)
    \/ \E k \in LoadMores : MoreAssetsLoaded(k)
    \/ \E k \in LoadMores : MoreBatchSettled(k)

(* The indexing run with up to MaxLoadMore presses of Load More. *)
Next ==
    \/ RunStep
    \/ \E o \in Callers : UploadStep(o)
    \/ MoreStep

Spec == Init /\ [][Next]_vars

(* The indexing run with one press of Load More and the reprocess button.  *)
(* Every await of the code settles (a request ends with a response, an     *)
(* error or its timeout; a timer fires), so a step of the run or of an     *)
(* upload that can be taken is eventually taken.  The user need not press  *)
(* anything.                                                               *)
NextOne ==
    \/ RunStep
    \/ UploadStep(0)
    \/ UploadStep(1)
    \/ LoadMorePressed(1)
    \/ MoreAssetsLoaded(1)
    \/ MoreBatchSettled(1)
    \/ TriggerReprocess

FairSpec ==
    /\ Init
    /\ [][NextOne]_vars
    /\ WF_vars(RunStep)
    /\ WF_vars(UploadStep(0))

(* The screen after an indexing run over a library of n photos has ended   *)
(* with "ready": ids[k] is the photoId the upload of photo k left behind.  *)
AfterRun(n, ids) ==
    /\ library = [k \in 1..n |-> Asset(k)]
    /\ photos = [k \in 1..n |->
                    [assetId |-> k, uri |-> Asset(k).uri, photoId |-> ids[k]]]
    /\ loading = FALSE
    /\ permissionDenied = FALSE
    /\ indexDone = Len(ToIndex(library))
    /\ indexTotal = Len(ToIndex(library))
    /\ stage = "ready"
    /\ run = [pc |-> "done", status |-> "granted", assets |-> library,
              toIndex |-> ToIndex(library),
              i |-> ((Len(ToIndex(library)) + BatchSize - 1) \div BatchSize)
                        * BatchSize,
              waited |-> interval, exit |-> "complete"]
    /\ lm = [k \in LoadMores |->
                [pc |-> "idle", prev |-> 0, toIndex |-> <<>>, i |-> 0]]
    /\ up = [o \in Callers |-> <<>>]
    /\ issued = {Request("loadAndIndex", kind) :
                    kind \in {"clear", "reprocess", "status"}
                        \cup (IF n > 0 THEN {"upload"} ELSE {})}

(* The search bar over an indexed screen with up to MaxShown photos, and a *)
(* backend whose answer to each query does not change.                     *)
InitSearch ==
    /\ \E n \in 0..MaxShown :
          \E ids \in [1..n -> {Absent} \cup PhotoIds] :
              /\ \A k \in 1..n : k > INDEX_LIMIT => ids[k] = Absent
              /\ AfterRun(n, ids)
    /\ filter = <<>>
    /\ searches = NoSearches
    /\ lastSearch = NoSubmission
    /\ backend \in [Queries -> SearchBodies]
    /\ gw = GatewayIdle

SearchStep ==
    \/ \E c \in SearchCalls, text \in SearchTexts : SearchSubmitted(c, text)
    \/ \E c \in SearchCalls, kind \in SearchSettles : SearchSettled(c, kind)

SearchSpec == InitSearch /\ [][SearchStep]_vars

(* The gateway Worker alone: one request at a time, each answered before   *)
(* the next is looked at (the Worker keeps no state between requests).     *)
InitGateway == Init /\ library = <<>>

GatewayStep ==
    \/ \E request \in GatewayRequests : GatewayReceives(request)
    \/ \E r \in ForwardOutcomes : GatewayForwardSettled(r)

GatewaySpec == InitGateway /\ [][GatewayStep]_vars

(* The device gains a photo: the library is kept newest first, so the new  *)
(* asset is the first one getAssetsAsync returns from now on.              *)
PhotoTaken ==
    /\ Len(library) < MaxAssets
    /\ library' = <<Asset(Len(library) + 1)>> \o library
    /\ UNCHANGED <<photos, loading, permissionDenied, indexDone, indexTotal,
                   stage, run, lm, up, issued>>
    /\ UNCHANGED <<searchVars, gw>>

(* Load More is pressed while nothing else is indexing: the run has ended  *)
(* and no other invocation of loadMore is under way.                       *)
LoadMorePressedAlone(k) ==
    /\ run.pc = "done"
    /\ \A j \in LoadMores : lm[j].pc \in {"idle", "returned"}
    /\ LoadMorePressed(k)

(* Load More after the initial run has ended, one invocation at a time,    *)
(* over a library that may have grown since the run.                       *)
InitMore ==
    /\ \E n \in 0..MaxAssets :
          \E ids \in [1..n -> {Absent} \cup PhotoIds] :
              /\ \A k \in 1..n : k > INDEX_LIMIT => ids[k] = Absent
              /\ AfterRun(n, ids)
    /\ filter = <<>>
    /\ searches = NoSearches
    /\ lastSearch = NoSubmission
    /\ backend = NoBackend
    /\ gw = GatewayIdle

MoreAloneStep ==
    \/ PhotoTaken
    \/ \E k \in LoadMores : LoadMorePressedAlone(k)
    \/ \E k \in LoadMores : MoreAssetsLoaded(k)
    \/ \E k \in LoadMores : MoreBatchSettled(k)
    \/ \E k \in LoadMores : UploadStep(k)

MoreSpec == InitMore /\ [][MoreAloneStep]_vars

(* The initial run against a backend that accepts every upload: each      *)
(* upload request is answered with a photo_id, in any order.               *)
AcceptedUploadStep ==
    \E j \in 1..BatchSize, r \in UploadOutcomes :
        r.kind = "success" /\ UploadSettled(0, j, r)

AcceptStep == RunStep \/ AcceptedUploadStep

AcceptSpec == Init /\ [][AcceptStep]_vars

(* The initial run with uploadAsset followed await by await. *)
UploadByAwaitStep ==
    \/ RunStep
    \/ \E j \in 1..BatchSize, info \in InfoOutcomes : UploadInfoSettled(0, j, info)
    \/ \E j \in 1..BatchSize, r \in UploadOutcomes : UploadResponded(0, j, r)

UploadSpec == Init /\ [][UploadByAwaitStep]_vars

(***************************************************************************)
(* Properties                                                              *)
(***************************************************************************)

StageRank(s) ==
    CASE s = "idle" -> 0
      [] s = "clearing" -> 1
      [] s = "uploading" -> 2
      [] s = "processing" -> 3
      [] s = "ready" -> 4

NoLoadMore == \A k \in LoadMores : lm[k].pc = "idle"

(* Some caller's await of Promise.all resolves in this step: its batch has *)
(* fully settled and the caller moves on.                                  *)
BatchSettles ==
    \/ run.pc = "batch" /\ AllSettled(up[0]) /\ run' # run
    \/ \E k \in LoadMores : lm[k].pc = "batch" /\ AllSettled(up[k]) /\ lm'[k] # lm[k]

(* setPhotos is called with a freshly enumerated asset list in this step. *)
Reloads ==
    \/ run.pc = "getAssets" /\ run'.pc # "getAssets"
    \/ \E k \in LoadMores : lm[k].pc = "getAssets" /\ lm'[k].pc # "getAssets"

(* The photoId of the photo of asset a, Absent when there is none. *)
PhotoIdOf(ps, a) ==
    IF \E k \in 1..Len(ps) : ps[k].assetId = a
    THEN (CHOOSE ph \in {ps[k] : k \in 1..Len(ps)} : ph.assetId = a).photoId
    ELSE Absent

AssetIds == {library[k].id : k \in 1..Len(library)}

C2_DoneAtMostTotal == indexDone <= indexTotal

(* C3: no step decreases indexDone, and indexDone changes only in a step   *)
(* in which a batch has fully settled.                                     *)
C3_DoneMonotone ==
    [][/\ indexDone' >= indexDone
       /\ indexDone' # indexDone => BatchSettles]_vars

(* C4: in the initial run (no Load More pressed), indexTotal is the        *)
(* smaller of the library size and INDEX_LIMIT; while the batch after the  *)
(* k-th is awaited (i = 3k) indexDone is min(3k, total), whatever the      *)
(* uploads answered; the loop ends after ceil(total / 3) batches with      *)
(* indexDone = indexTotal.                                                 *)
C4_BatchProgress ==
    NoLoadMore =>
        /\ run.pc \in {"loop", "batch", "reprocess", "pollSleep", "pollFetch", "done"}
              => indexTotal = Min(Len(library), INDEX_LIMIT)
        /\ run.pc = "loop" => indexDone = 0
        /\ run.pc = "batch"
              => /\ run.i % BatchSize = 0
                 /\ run.i < indexTotal
                 /\ indexDone = Min(run.i, indexTotal)
        /\ run.pc \in {"reprocess", "pollSleep", "pollFetch", "done"}
              => /\ indexDone = indexTotal
                 /\ run.i = BatchSize * ((indexTotal + BatchSize - 1) \div BatchSize)

(* The run over a library larger than INDEX_LIMIT awaits its second batch  *)
(* with every upload of the first failed.                                  *)
C4_Witness ==
    /\ NoLoadMore
    /\ Len(library) > INDEX_LIMIT
    /\ run.pc = "batch"
    /\ run.i = BatchSize
    /\ indexDone = BatchSize
    /\ \A k \in 1..Len(photos) : photos[k].photoId = Absent

(* C5: once the photoId of a photo is set, no step changes it: it is       *)
(* neither cleared nor overwritten (so it changes at most once).           *)
C5_PhotoIdSetOnce ==
    [][\A a \in AssetIds :
          PhotoIdOf(photos, a) # Absent => PhotoIdOf(photos', a) = PhotoIdOf(photos, a)]_vars

(* C6: no step other than a full collection reload turns a set photoId     *)
(* into an absent one.                                                     *)
C6_NoResetButReload ==
    [][~Reloads =>
          \A a \in AssetIds :
              PhotoIdOf(photos, a) # Absent => PhotoIdOf(photos', a) # Absent]_vars

(* C7: with permission granted the run eventually reaches stage "ready",   *)
(* whatever the clear call, the uploads, the reprocess call and the status *)
(* polls answer.                                                           *)
C7_EventuallyReady == (run.status = "granted") ~> (stage = "ready")

(* The run is ready although every upload failed and the poll never        *)
(* reported completion.                                                    *)
C7_Witness ==
    /\ stage = "ready"
    /\ run.exit = "deadline"
    /\ lm[1].pc = "idle"
    /\ Len(photos) > INDEX_LIMIT
    /\ \A k \in 1..Len(photos) : photos[k].photoId = Absent

PollPcs == {"pollSleep", "pollFetch"}

(* C8: pollUntilReady sleeps only before the deadline, so it never runs    *)
(* more than one interval past maxWait, and from every point of the poll   *)
(* stage eventually becomes "ready", also when no poll reports completion. *)
C8_PollGivesUp ==
    /\ [](run.pc = "pollSleep" => run.waited < maxWait)
    /\ [](run.pc = "pollFetch" => run.waited < maxWait + interval)
    /\ (run.pc \in PollPcs) ~> (stage = "ready")

(* pollUntilReady returned at its deadline and stage is "ready". *)
C8_Witness == stage = "ready" /\ run.exit = "deadline" /\ run.waited >= maxWait

C10_FailedUploadKeepsPhotoId ==
    [][(\E o \in Callers, j \in 1..BatchSize, r \in UploadOutcomes :
            r.kind # "success" /\ UploadSettled(o, j, r))
          => \A a \in AssetIds : PhotoIdOf(photos', a) = PhotoIdOf(photos, a)]_vars

(* C11: every uploadAsset call ends fulfilled, whatever the asset-info     *)
(* race and the upload request did: no call of any batch is ever left      *)
(* rejected, so once no call of the run's batch is in flight the await of  *)
(* Promise.all resolves and the run can go on to its next batch.           *)
C11_UploadNeverThrows ==
    /\ \A o \in Callers : \A j \in 1..Len(up[o]) : up[o][j].st # "rejected"
    /\ (run.pc = "batch" /\ \A j \in 1..Len(up[0]) : up[0][j].st # "inFlight")
            => ENABLED RunBatchSettled

(* The second batch of the run is in flight although the upload of the     *)
(* first photo left no photoId behind.                                     *)
C11_Witness ==
    /\ run.pc = "batch" /\ run.i = BatchSize
    /\ \E j \in 1..Len(up[0]) : up[0][j].st = "inFlight"
    /\ photos[1].photoId = Absent
    /\ NoLoadMore

(* C16: within one caller (the run, or one loadMore) a batch is started    *)
(* only when every call of the batch before it has settled: whenever the   *)
(* caller's loop index moves on, no call of its batch was still in flight. *)
C16_BatchesOrdered ==
    [][/\ run'.i # run.i =>
            \A j \in 1..Len(up[0]) : up[0][j].st = "settled"
       /\ \A k \in LoadMores :
            (lm[k].pc = "batch" /\ lm'[k].i # lm[k].i) =>
                \A j \in 1..Len(up[k]) : up[k][j].st = "settled"]_vars

(* The second batch of the run is in flight and every call of the first    *)
(* has settled: the photos of the first batch have their photoId.          *)
C16_Witness ==
    /\ run.pc = "batch" /\ run.i = BatchSize
    /\ \E j \in 1..Len(up[0]) : up[0][j].st = "inFlight"
    /\ \A k \in 1..BatchSize : photos[k].photoId # Absent

(* The uploadAsset calls in flight, over all callers. *)
InFlight ==
    {c \in Callers \X (1..BatchSize) :
        c[2] <= Len(up[c[1]]) /\ up[c[1]][c[2]].st = "inFlight"}

(* C19: at every moment at most one batch of uploadAsset calls (3) is in   *)
(* flight, counting the calls of the run and of every loadMore together.   *)
C19_AtMostOneBatchInFlight == Cardinality(InFlight) <= BatchSize

(* The ids of the assets caller o has passed to uploadAsset so far: the    *)
(* batches its loop has started, up to and including the one it awaits.    *)
Passed(o) ==
    LET ids(assets) == {assets[k].id : k \in 1..Len(assets)}
    IN  IF o = 0
        THEN ids(Slice(run.toIndex, 0,
                       IF run.pc = "batch" THEN run.i + BatchSize ELSE run.i))
        ELSE ids(Slice(lm[o].toIndex, lm[o].prev,
                       IF lm[o].pc = "batch" THEN lm[o].i + BatchSize
                       ELSE lm[o].i))

(* C20: no asset is passed to uploadAsset more than once: the assets the   *)
(* run and the loadMore invocations have passed to it are pairwise         *)
(* disjoint (each caller passes distinct assets of its own selection).     *)
C20_NoAssetUploadedTwice ==
    \A o1, o2 \in Callers : o1 # o2 => Passed(o1) \cap Passed(o2) = {}

(* C12: a submission of the empty text or of a text of whitespace only     *)
(* makes the filter empty, whatever it was, and sends no request: no call  *)
(* starts to await and nothing is added to the requests issued.            *)
C12_BlankQueryClears ==
    [][\A c \in SearchCalls, text \in SearchTexts :
          (SearchSubmitted(c, text)
              /\ \A k \in 1..Len(text) : text[k] \in {" ", "\t"})
          => /\ filter' = <<>>
             /\ issued' = issued
             /\ searches'[c].pc = "returned"]_vars

(* A whitespace-only or empty submission has cleared the filter after a    *)
(* search had been sent.                                                   *)
C12_Witness ==
    /\ \E c \in SearchCalls : searches[c].did = "cleared"
    /\ Request("handleSearch", "search") \in issued
    /\ filter = <<>>

(* C13: a search that fails (fetch rejects, the body does not parse, or    *)
(* the body is not marked ok) returns without changing the filter.         *)
C13_FailedSearchKeepsFilter ==
    [][\A c \in SearchCalls, kind \in SearchSettles :
          (SearchSettled(c, kind)
              /\ (kind # "json" \/ ~backend[searches[c].text].ok))
          => /\ filter' = filter
             /\ searches'[c].pc = "returned"]_vars

(* A search has returned without setting the filter, and the filter still  *)
(* holds the identifiers of an earlier search.                             *)
C13_Witness ==
    /\ \E c \in SearchCalls :
          searches[c].pc = "returned" /\ searches[c].did = "nothing"
    /\ \A c \in SearchCalls : searches[c].did # "set"
    /\ filter # <<>>

(* The identifiers a body gives: those of its photos that have metadata    *)
(* with an id.                                                             *)
UsableIds(body) ==
    {hit.id : hit \in {x \in Range(body.photos) : x.hasMetadata /\ x.id # Absent}}

(* C14: a successful search makes the filter hold exactly the identifiers  *)
(* of its response: none of the previous filter's identifiers survives     *)
(* unless the response has it, and a filter that already holds the         *)
(* response's identifiers (the same query asked before) is left the same.  *)
C14_SearchReplacesFilter ==
    [][\A c \in SearchCalls :
          LET body == backend[searches[c].text]
          IN  (SearchSettled(c, "json") /\ body.ok /\ body.hasPhotos)
              => /\ Range(filter') = UsableIds(body)
                 /\ (Range(filter) \ UsableIds(body)) \cap Range(filter') = {}
                 /\ Range(filter) = UsableIds(body)
                        => Range(filter') = Range(filter)]_vars

(* Two searches have set the filter, the backend answers the two queries   *)
(* with different identifiers, and the filter holds those of one answer.   *)
C14_Witness ==
    /\ \A c \in SearchCalls : searches[c].did = "set"
    /\ filter # <<>>
    /\ \E q \in Queries :
          /\ backend[q].ok
          /\ UsableIds(backend[q]) # {}
          /\ UsableIds(backend[q]) \cap Range(filter) = {}

(* C15: under a non-empty filter the grid shows exactly the photos whose   *)
(* photoId is in the filter, and none whose photoId is absent; under an    *)
(* empty filter it shows every photo.                                      *)
C15_GridShowsFiltered ==
    LET shown == FilteredPhotos(photos, filter)
    IN  /\ filter = <<>> => shown = photos
        /\ filter # <<>> =>
              \A k \in 1..Len(photos) :
                  /\ photos[k] \in Range(shown)
                        <=> photos[k].photoId \in Range(filter)
                  /\ photos[k].photoId = Absent => photos[k] \notin Range(shown)

(* A non-empty filter shows one photo and hides another, which has no      *)
(* photoId.                                                                *)
C15_Witness ==
    /\ filter # <<>>
    /\ \E k \in 1..Len(photos) :
          photos[k] \in Range(FilteredPhotos(photos, filter))
    /\ \E k \in 1..Len(photos) :
          /\ photos[k].photoId = Absent
          /\ photos[k] \notin Range(FilteredPhotos(photos, filter))

(* C17: every response the Worker returns has each of the three CORS       *)
(* headers with the Worker's value and no other: the 204 it gives to       *)
(* OPTIONS without forwarding, a forwarded response whatever CORS headers  *)
(* the backend set, and the 502.                                           *)
C17_CorsOnEveryResponse ==
    gw.pc = "returned" =>
        /\ \A k \in 1..Len(CORS_HEADERS) :
              HeaderValues(gw.response.headers, CORS_HEADERS[k][1])
                  = {CORS_HEADERS[k][2]}
        /\ HeaderValues(gw.response.headers, "access-control-allow-origin")
              = {"*"}
        /\ gw.request.method = "OPTIONS" =>
              gw.response.status = 204 /\ gw.proxied = NoRequest
        /\ gw.request.method # "OPTIONS" =>
              gw.response.status = IF gw.upstream.kind = "rejected" THEN 502
                                   ELSE gw.upstream.status

(* A forwarded response is returned whose backend had set its own          *)
(* Access-Control-Allow-Origin.                                            *)
C17_Witness ==
    /\ gw.pc = "returned"
    /\ gw.upstream.kind = "response"
    /\ <<"access-control-allow-origin", "https://app.example">>
          \in gw.upstream.headers
    /\ gw.response.status = 404

(* C18: a request other than OPTIONS whose forwarding fails is answered    *)
(* with status 502 and a JSON body that holds error and detail.            *)
C18_ForwardFailureIs502 ==
    (gw.pc = "returned" /\ gw.request.method # "OPTIONS"
        /\ gw.upstream.kind = "rejected")
    => /\ gw.response.status = 502
       /\ gw.response.body = "json"
       /\ {f[1] : f \in gw.response.json} = {"error", "detail"}
       /\ <<"content-type", "application/json">> \in gw.response.headers

(* A POST whose forwarding was rejected has been answered. *)
C18_Witness ==
    /\ gw.pc = "returned"
    /\ gw.request.method = "POST"
    /\ gw.upstream.kind = "rejected"

(* C21: a loadMore invocation that nothing overlaps has, once it has       *)
(* returned, passed every asset it selected to uploadAsset, and indexDone  *)
(* equals indexTotal again (it did when the invocation started).           *)
C21_MoreUploadsAllSelected ==
    (\A k \in LoadMores : lm[k].pc \in {"idle", "returned"})
    => /\ \A k \in LoadMores :
             lm[k].pc = "returned" =>
                 Passed(k) = {lm[k].toIndex[j].id : j \in 1..Len(lm[k].toIndex)}
       /\ indexDone = indexTotal

(* C27: when a loadMore invocation has started and has not yet counted its *)
(* assets, the progress is reset: stage is idle, indexDone and indexTotal  *)
(* are 0.                                                                  *)
C27_ProgressResetAtLoadMore ==
    \A k \in LoadMores :
        lm[k].pc = "getAssets" =>
            stage = "idle" /\ indexDone = 0 /\ indexTotal = 0

(* C22: whenever an uploadAsset call is in flight, of the run or of a      *)
(* loadMore invocation, stage is "uploading".                              *)
C22_UploadingWhileInFlight == InFlight # {} => stage = "uploading"

(* C23: the step that takes stage from "uploading" to "processing", and    *)
(* the step in which loadAndIndex sends its reprocess request, is taken    *)
(* only when every call of the run's last batch has settled and the loop   *)
(* has gone over the whole selection; it is one step, after which no       *)
(* upload of the run is in flight.                                         *)
C23_ReprocessAfterUploads ==
    [][((stage = "uploading" /\ stage' = "processing")
            \/ (Request("loadAndIndex", "reprocess") \in issued' \ issued))
       => /\ \A j \in 1..Len(up[0]) : up[0][j].st = "settled"
          /\ run'.i >= Len(run'.toIndex)
          /\ up'[0] = <<>>
          /\ stage' = "processing"
          /\ Request("loadAndIndex", "reprocess") \in issued']_vars

(* The run is in "processing" after two batches, the reprocess request     *)
(* sent, with a photo of each batch uploaded.                              *)
C23_Witness ==
    /\ stage = "processing"
    /\ run.i > BatchSize
    /\ Request("loadAndIndex", "reprocess") \in issued
    /\ Len(photos) > BatchSize
    /\ photos[1].photoId # Absent
    /\ photos[BatchSize + 1].photoId # Absent

(* C24: the poll ends before its deadline only on a status response that   *)
(* reports at least as many processed items as the run selected (the       *)
(* argument of pollUntilReady).                                            *)
C24_PollEndsOnExpectedCount ==
    [][\A r \in StatusOutcomes :
          (PollStatusSettled(r) /\ run'.pc = "done" /\ run'.exit = "complete")
          => r.ok /\ r.processed >= Len(run.toIndex)]_vars

(* C25: the step in which an upload succeeds keeps the length and order of *)
(* the collection, the assetId and uri of every photo, and every field of  *)
(* the photos of other assets; the photo of the uploaded asset gets the    *)
(* returned identifier.                                                    *)
C25_UploadUpdatesOnePhotoId ==
    [][\A o \in Callers, j \in 1..BatchSize, r \in UploadOutcomes :
          (r.kind = "success" /\ UploadSettled(o, j, r))
          => /\ Len(photos') = Len(photos)
             /\ \A k \in 1..Len(photos) :
                   /\ photos'[k].assetId = photos[k].assetId
                   /\ photos'[k].uri = photos[k].uri
                   /\ IF photos[k].assetId = up[o][j].asset.id
                      THEN photos'[k].photoId = r.photo_id
                      ELSE photos'[k] = photos[k]]_vars

(* An upload of the run's first batch has succeeded while the photo before *)
(* it and the photo after it have no photoId.                              *)
C25_Witness ==
    /\ run.pc = "batch" /\ run.i = 0
    /\ NoLoadMore
    /\ Len(up[0]) = BatchSize
    /\ up[0][2].st = "settled"
    /\ photos[1].photoId = Absent
    /\ photos[2].photoId # Absent
    /\ photos[3].photoId = Absent

(* C26: when the last response of a batch whose uploads all succeed        *)
(* arrives, every asset of the batch has a photoId: the one just returned  *)
(* for the asset of this response, and for each other asset of the batch   *)
(* the one it had been given, which this response has not touched.         *)
C26_NoLostUpdateInBatch ==
    [][\A j \in 1..BatchSize, r \in UploadOutcomes :
          (r.kind = "success" /\ UploadSettled(0, j, r) /\ AllSettled(up'[0]))
          => \A c \in 1..Len(up[0]) :
                /\ PhotoIdOf(photos', up[0][c].asset.id) \in PhotoIds
                /\ c = j => PhotoIdOf(photos', up[0][c].asset.id) = r.photo_id
                /\ c # j => PhotoIdOf(photos', up[0][c].asset.id)
                                = PhotoIdOf(photos, up[0][c].asset.id)]_vars

(* A full first batch has settled and each of its photos has a photoId. *)
C26_Witness ==
    /\ run.pc = "batch" /\ run.i = 0
    /\ Len(up[0]) = BatchSize
    /\ AllSettled(up[0])
    /\ \A k \in 1..BatchSize : photos[k].photoId \in PhotoIds

(* C28: once the asset-info race of a call has settled, whatever its       *)
(* outcome, the upload request has been sent and the call has not failed;  *)
(* device_uri is the asset's uri; the file's uri is the asset's uri when   *)
(* the race was rejected or timed out, and also when no localUri came.     *)
C28_InfoFailureFallsBack ==
    \A j \in 1..Len(up[0]) :
        up[0][j].info # "pending" =>
            /\ up[0][j].st # "rejected"
            /\ Request("loadAndIndex", "upload") \in issued
            /\ up[0][j].form.device_uri = up[0][j].asset.uri
            /\ up[0][j].info \in {"rejected", "timeout", "noLocalUri"}
                  => up[0][j].form.file = up[0][j].asset.uri
            /\ up[0][j].info = "localUri"
                  => up[0][j].form.file = <<"file", up[0][j].asset.id>>

(* One call of a batch has sent its request after its race timed out, and  *)
(* another after its race gave a localUri.                                 *)
C28_Witness ==
    /\ \E j \in 1..Len(up[0]) :
          up[0][j].info = "timeout" /\ up[0][j].form.file = up[0][j].asset.uri
    /\ \E j \in 1..Len(up[0]) :
          /\ up[0][j].info = "localUri"
          /\ up[0][j].form.file # up[0][j].asset.uri
          /\ up[0][j].form.device_uri = up[0][j].asset.uri

(* C29: when no search is awaiting its response any more, the filter is    *)
(* what the most recent submission gives: empty if that was a blank text,  *)
(* the identifiers of its response if it set the filter.                   *)
C29_LatestSearchWins ==
    (lastSearch.call # 0 /\ \A c \in SearchCalls : searches[c].pc # "fetch")
    => /\ searches[lastSearch.call].did = "cleared" => filter = <<>>
       /\ searches[lastSearch.call].did = "set"
             => Range(filter) = UsableIds(backend[lastSearch.text])

(* C30: the step in which a search succeeds with a response that has no    *)
(* usable identifier leaves the filter empty, and the grid then shows      *)
(* every photo, as it does before any search.                              *)
C30_EmptyResultShowsAll ==
    [][\A c \in SearchCalls :
          LET body == backend[searches[c].text]
          IN  (SearchSettled(c, "json") /\ body.ok /\ body.hasPhotos
                   /\ UsableIds(body) = {})
              => /\ filter' = <<>>
                 /\ FilteredPhotos(photos', filter') = photos'
                 /\ FilteredPhotos(photos', filter')
                       = FilteredPhotos(photos', <<>>)]_vars

(* Every query is answered ok with photos none of which has a usable id, a *)
(* search has set the filter, the filter is empty and there are photos.    *)
C30_Witness ==
    /\ \A q \in Queries :
          backend[q].ok /\ backend[q].hasPhotos
              /\ backend[q].photos # <<>> /\ UsableIds(backend[q]) = {}
    /\ \E c \in SearchCalls : searches[c].did = "set"
    /\ filter = <<>>
    /\ Len(photos) > 0
====
